---- MODULE Spec2Model ----
(***************************************************************************)
(* BrandGuard AI: the Ingestion Service (POST /submit) and the Sentiment   *)
(* Analysis Service (POST /analyze) as one state machine.                  *)
(*                                                                         *)
(* Text is a sequence of one-character strings.  A polarity is an integer  *)
(* number of thousandths, so the thresholds -0.1 and 0.1 are -100 and 100  *)
(* and the range [-1.0, 1.0] is -1000 .. 1000.  An instant of the UTC      *)
(* clock is a tick number.                                                 *)
(***************************************************************************)
EXTENDS Integers, Sequences, FiniteSets, TLC

VARIABLES
    now,        \* the wall clock of the Analysis Service, in ticks
    lexicon,    \* the polarity TextBlob gives each text classified so far
    store,      \* the DynamoDB table: the items written, one per key
    running,    \* the request whose analyze handler holds the event loop, or 0
    analysis,   \* per request: the state of its POST /analyze call
    intake      \* per request: the state of its POST /submit call

vars == <<now, lexicon, store, running, analysis, intake>>

(***************************************************************************)
(* Bounds of the model.                                                    *)
(***************************************************************************)
NumReq == 2      \* requests in flight at the Analysis Service
MaxLen == 2      \* longest brand or text a client sends
MaxClock == 1    \* last tick of the clock

Req == 1 .. NumReq

(***************************************************************************)
(* Program constants.                                                      *)
(***************************************************************************)
NegThreshold == -100
PosThreshold == 100
ServiceUnavailable == 503
PolarityMax == 10 * PosThreshold

DYNAMODB_TABLE_NAME == "brandguard-reviews"

(***************************************************************************)
(* Text and Review validation.                                             *)
(***************************************************************************)
Chars == {" ", "a"}

IsSpace(c) == c = " "

RawStrings == UNION {[1 .. n -> Chars] : n \in 0 .. MaxLen}

RECURSIVE lstrip(_)
lstrip(v) ==
    IF v = <<>> THEN v
    ELSE IF IsSpace(Head(v)) THEN lstrip(Tail(v)) ELSE v

RECURSIVE rstrip(_)
rstrip(v) ==
    IF v = <<>> THEN v
    ELSE IF IsSpace(v[Len(v)]) THEN rstrip(SubSeq(v, 1, Len(v) - 1)) ELSE v

\* str.strip()
strip(v) == rstrip(lstrip(v))

\* A validator that forgets the whitespace-only case.
not_empty_only_falsy(v) ==
    IF v = <<>>
        THEN [ok |-> FALSE, value |-> <<>>]
        ELSE [ok |-> TRUE, value |-> strip(v)]

\* Review.not_empty of the Ingestion Service.
ingestion_not_empty(v) ==
    IF v = <<>> \/ strip(v) = <<>>
        THEN [ok |-> FALSE, value |-> <<>>]
        ELSE [ok |-> TRUE, value |-> strip(v)]

\* Review.not_empty of the Sentiment Analysis Service.
sentiment_not_empty(v) ==
    IF v = <<>> \/ strip(v) = <<>>
        THEN [ok |-> FALSE, value |-> <<>>]
        ELSE [ok |-> TRUE, value |-> strip(v)]

NoReview == [brand |-> <<>>, text |-> <<>>]

\* Review(brand=..., text=...) of the Ingestion Service: both fields validated.
IngestionReview(brand, text) ==
    LET b == ingestion_not_empty(brand)
        t == ingestion_not_empty(text)
    IN  [ok |-> b.ok /\ t.ok,
         review |-> IF b.ok /\ t.ok
                        THEN [brand |-> b.value, text |-> t.value]
                        ELSE NoReview]

\* Review(brand=..., text=...) of the Sentiment Analysis Service.
SentimentReview(brand, text) ==
    LET b == sentiment_not_empty(brand)
        t == sentiment_not_empty(text)
    IN  [ok |-> b.ok /\ t.ok,
         review |-> IF b.ok /\ t.ok
                        THEN [brand |-> b.value, text |-> t.value]
                        ELSE NoReview]

(***************************************************************************)
(* Classification.                                                         *)
(***************************************************************************)
\* The thresholds with the boundaries on the wrong side.
analyze_sentiment_inclusive(polarity) ==
    [label |-> IF polarity <= NegThreshold THEN "CRITICAL"
               ELSE IF polarity >= PosThreshold THEN "POSITIVE"
               ELSE "NEUTRAL",
     score |-> polarity]

\* analyze_sentiment, given the polarity TextBlob computed for the text.
analyze_sentiment(polarity) ==
    [label |-> IF polarity < NegThreshold THEN "CRITICAL"
               ELSE IF polarity > PosThreshold THEN "POSITIVE"
               ELSE "NEUTRAL",
     score |-> polarity]

\* Every polarity TextBlob can return.
AllPolarities == (0 - PolarityMax) .. PolarityMax

\* The polarities around the thresholds and at the ends of the range.
Polarities ==
    {0 - PolarityMax, NegThreshold - 1, NegThreshold, 0,
     PosThreshold, PosThreshold + 1, PolarityMax}

(***************************************************************************)
(* Exceptions: the classes the two services name, with their base classes, *)
(* and Python's choice of the first except clause that matches.            *)
(***************************************************************************)
BaseClass ==
    [NoCredentialsError      |-> "BotoCoreError",
     NoRegionError           |-> "BotoCoreError",
     EndpointConnectionError |-> "BotoCoreError",
     BotoCoreError           |-> "Exception",
     ClientError             |-> "Exception",
     TypeError               |-> "Exception",
     ConnectTimeout          |-> "TimeoutException",
     ReadTimeout             |-> "TimeoutException",
     TimeoutException        |-> "TransportError",
     ConnectError            |-> "TransportError",
     TransportError          |-> "RequestError",
     RequestError            |-> "HTTPError",
     HTTPStatusError         |-> "HTTPError",
     HTTPError               |-> "Exception",
     Exception               |-> "BaseException",
     BaseException           |-> "object"]

RECURSIVE isinstance(_, _)
isinstance(cls, target) ==
    IF cls = target THEN TRUE
    ELSE IF cls \in DOMAIN BaseClass THEN isinstance(BaseClass[cls], target)
    ELSE FALSE

\* The index of the first clause of chain that catches cls, 0 when none does.
FirstMatch(chain, cls) ==
    LET hits == {i \in 1 .. Len(chain) : isinstance(cls, chain[i])}
    IN  IF hits = {} THEN 0
        ELSE CHOOSE i \in hits : \A j \in hits : i <= j

(***************************************************************************)
(* HTTP bodies.  A body is a JSON analysis result, a JSON object holding a *)
(* "detail" text, or plain text; every body has the same three fields.     *)
(***************************************************************************)
NoTime == <<0 - 1, "">>

\* datetime.isoformat() of a UTC instant: the instant with its UTC offset.
isoformat(t) == <<t, "+00:00">>

NoResult ==
    [brand |-> <<>>, text |-> <<>>, sentiment |-> "", score |-> 0,
     timestamp |-> NoTime]

JsonBody(result) == [kind |-> "json", result |-> result, text |-> <<>>]
DetailBody(detail) == [kind |-> "detail", result |-> NoResult, text |-> detail]
TextBody(text) == [kind |-> "text", result |-> NoResult, text |-> text]

NoResponse == [status |-> 0, body |-> TextBody(<<>>)]

\* FastAPI's answer to a request whose Review does not validate.
ValidationFailure ==
    [status |-> 422, body |-> DetailBody(<<"Field cannot be empty">>)]

\* FastAPI's answer when a handler lets an exception escape.
InternalServerError ==
    [status |-> 500, body |-> TextBody(<<"Internal Server Error">>)]

\* response.text: the body as the text that was sent.
response_text(body) ==
    CASE body.kind = "text" -> body.text
      [] body.kind = "detail" -> <<"{\"detail\":\"">> \o body.text \o <<"\"}">>
      [] OTHER ->
            <<"{\"brand\":\"">> \o body.result.brand
                \o <<"\",\"text\":\"">> \o body.result.text
                \o <<"\",\"sentiment\":\"", body.result.sentiment,
                     "\",\"score\":", ToString(body.result.score),
                     ",\"timestamp\":\"",
                     ToString(body.result.timestamp[1]),
                     body.result.timestamp[2], "\"}">>

(***************************************************************************)
(* The Persistence Gateway: save_to_dynamodb.                              *)
(***************************************************************************)
\* What the write meets: nothing, or an exception raised while the resource
\* is created (before put_item is called) or by put_item itself.
NoFault == [stage |-> "none", exc |-> "none", code |-> "none"]

SaveOutcomes ==
    {NoFault,
     [stage |-> "resource", exc |-> "NoRegionError", code |-> "none"],
     [stage |-> "put_item", exc |-> "NoCredentialsError", code |-> "none"],
     [stage |-> "put_item", exc |-> "ClientError",
      code |-> "ResourceNotFoundException"],
     [stage |-> "put_item", exc |-> "ClientError", code |-> "none"],
     [stage |-> "put_item", exc |-> "EndpointConnectionError", code |-> "none"],
     [stage |-> "put_item", exc |-> "TypeError", code |-> "none"]}

\* The except clauses with the catch-all left out.
save_except_clauses_no_catch_all ==
    <<"NoCredentialsError", "ClientError", "BotoCoreError">>

\* The except clauses with the base class before its subclass.
save_except_clauses_base_first ==
    <<"BotoCoreError", "NoCredentialsError", "ClientError", "Exception">>

\* The except clauses of save_to_dynamodb, in order.
save_except_clauses ==
    <<"NoCredentialsError", "ClientError", "BotoCoreError", "Exception">>

\* The reason the clause that caught the exception prints.
save_reason(clause, fault) ==
    CASE clause = "NoCredentialsError" -> "No AWS credentials"
      [] clause = "ClientError" ->
            IF fault.code = "none" THEN "Unknown" ELSE fault.code
      [] OTHER -> fault.exc

\* item.pop that leaves the key in the item.
pop_table_name_keep(item) ==
    [table_name |-> IF "_table_name" \in DOMAIN item
                        THEN item["_table_name"]
                        ELSE DYNAMODB_TABLE_NAME,
     item |-> item]

\* table_name = item.pop("_table_name", DYNAMODB_TABLE_NAME)
pop_table_name(item) ==
    [table_name |-> IF "_table_name" \in DOMAIN item
                        THEN item["_table_name"]
                        ELSE DYNAMODB_TABLE_NAME,
     item |-> [k \in DOMAIN item \ {"_table_name"} |-> item[k]]]

\* item.get('brand')
get_brand(item) == IF "brand" \in DOMAIN item THEN item["brand"] ELSE <<>>

\* save_to_dynamodb(item) when the write meets fault: the item as the call
\* leaves it, the table named, the put_item calls made, whether the item was
\* stored, what was printed, and the exception that escapes ("none": the
\* function returns).
save_to_dynamodb(item, fault) ==
    LET popped == pop_table_name(item)
        it     == popped.item
        writes == IF fault.stage = "resource" THEN 0 ELSE 1
        clause == FirstMatch(save_except_clauses, fault.exc)
    IN  IF fault.stage = "none"
            THEN [item |-> it, table_name |-> popped.table_name,
                  writes |-> writes, stored |-> TRUE,
                  notices |-> <<[kind |-> "written", brand |-> get_brand(it),
                                 reason |-> ""]>>,
                  propagated |-> "none"]
        ELSE IF clause = 0
            THEN [item |-> it, table_name |-> popped.table_name,
                  writes |-> writes, stored |-> FALSE,
                  notices |-> <<>>, propagated |-> fault.exc]
        ELSE [item |-> it, table_name |-> popped.table_name,
              writes |-> writes, stored |-> FALSE,
              notices |-> <<[kind |-> "mock", brand |-> get_brand(it),
                             reason |-> save_reason(save_except_clauses[clause],
                                                    fault)]>>,
              propagated |-> "none"]

\* Table.put_item: the item replaces the one stored under the same key.
ItemKey(item) == <<item["brand"], item["timestamp"]>>

put_item(table, item) ==
    {i \in table : ItemKey(i) # ItemKey(item)} \cup {item}

(***************************************************************************)
(* The Analysis Service: POST /analyze.                                    *)
(*                                                                         *)
(* analyze is an async handler that never awaits, so the event loop runs   *)
(* one analyze call at a time from its first statement to its return       *)
(* ("running"); requests are parsed and validated before the handler runs. *)
(***************************************************************************)
NoAnalysis ==
    [pc |-> "idle", input |-> NoReview, review |-> NoReview,
     sentiment_label |-> "", score |-> 0, timestamp |-> NoTime,
     result |-> NoResult, item |-> NoResult, table_name |-> "",
     fault |-> NoFault, writes |-> 0, notices |-> <<>>,
     propagated |-> "none", trace |-> <<>>, response |-> NoResponse]

NoIntake ==
    [pc |-> "idle", input |-> NoReview, review |-> NoReview, posts |-> 0,
     outcome |-> "none", response |-> NoResponse, reply |-> NoResponse]

\* The request body reaches POST /analyze and is validated as a Review.
analyze_endpoint(r, brand, text) ==
    LET v == SentimentReview(brand, text)
    IN  /\ analysis[r].pc = "idle"
        /\ analysis' = [analysis EXCEPT ![r] =
              IF v.ok
                  THEN [@ EXCEPT !.pc = "received",
                                 !.input = [brand |-> brand, text |-> text],
                                 !.review = v.review]
                  ELSE [@ EXCEPT !.pc = "rejected",
                                 !.input = [brand |-> brand, text |-> text],
                                 !.response = ValidationFailure]]

\* A client posts to /analyze itself.
DirectAnalyze(r, brand, text) ==
    /\ intake[r].pc = "idle"
    /\ analyze_endpoint(r, brand, text)
    /\ UNCHANGED <<now, lexicon, store, running, intake>>

\* sentiment_label, score = analyze_sentiment(review.text); TextBlob gives
\* the text the polarity p, the same one every time it sees the text.
Classify(r, p) ==
    LET text == analysis[r].review.text
        known == text \in DOMAIN lexicon
        out == analyze_sentiment(p)
    IN  /\ analysis[r].pc = "received"
        /\ running = 0
        /\ known => lexicon[text] = p
        /\ lexicon' = IF known THEN lexicon ELSE (text :> p) @@ lexicon
        /\ running' = r
        /\ analysis' = [analysis EXCEPT ![r] =
              [@ EXCEPT !.pc = "classified",
                        !.sentiment_label = out.label,
                        !.score = out.score,
                        !.trace = Append(@, "analyze_sentiment")]]
        /\ UNCHANGED <<now, store, intake>>

\* timestamp = datetime.now(timezone.utc).isoformat()
ReadClock(r) ==
    /\ analysis[r].pc = "classified"
    /\ running = r
    /\ analysis' = [analysis EXCEPT ![r] =
          [@ EXCEPT !.pc = "stamped",
                    !.timestamp = isoformat(now),
                    !.trace = Append(@, "now")]]
    /\ UNCHANGED <<now, lexicon, store, running, intake>>

\* result = SentimentResult(...)
SentimentResult(a) ==
    [brand |-> a.review.brand, text |-> a.review.text,
     sentiment |-> a.sentiment_label, score |-> a.score,
     timestamp |-> a.timestamp]

Construct(r) ==
    /\ analysis[r].pc = "stamped"
    /\ running = r
    /\ analysis' = [analysis EXCEPT ![r] =
          [@ EXCEPT !.pc = "built",
                    !.result = SentimentResult(analysis[r]),
                    !.trace = Append(@, "SentimentResult")]]
    /\ UNCHANGED <<now, lexicon, store, running, intake>>

\* The dict analyze hands to save_to_dynamodb.
analyze_item(result) ==
    [k \in {"_table_name", "brand", "text", "sentiment", "score", "timestamp"}
        |-> IF k = "_table_name" THEN DYNAMODB_TABLE_NAME ELSE result[k]]

\* save_to_dynamodb({...}), from the call to its return or to the exception
\* that escapes it (which ends the handler with FastAPI's 500 answer).
Save(r, fault) ==
    LET out == save_to_dynamodb(analyze_item(analysis[r].result), fault)
        escaped == out.propagated # "none"
    IN  /\ analysis[r].pc = "built"
        /\ running = r
        /\ store' = IF out.stored THEN put_item(store, out.item) ELSE store
        /\ running' = IF escaped THEN 0 ELSE running
        /\ analysis' = [analysis EXCEPT ![r] =
              [@ EXCEPT !.pc = IF escaped THEN "crashed" ELSE "saved",
                        !.fault = fault,
                        !.item = out.item,
                        !.table_name = out.table_name,
                        !.writes = @ + out.writes,
                        !.notices = @ \o out.notices,
                        !.propagated = out.propagated,
                        !.response = IF escaped THEN InternalServerError ELSE @,
                        !.trace = @ \o <<"save_to_dynamodb">>
                                    \o (IF out.writes = 1 THEN <<"put_item">>
                                                          ELSE <<>>)
                                    \o (IF escaped THEN <<>> ELSE <<"saved">>)]]
        /\ UNCHANGED <<now, lexicon, intake>>

\* The value a handler hands back when it reports only what was stored.
returned_if_stored(a) ==
    IF \E i \in 1 .. Len(a.notices) : a.notices[i].kind = "mock"
        THEN NoResult
        ELSE a.result

\* return result
returned_result(a) == a.result

\* A handler that returns once the result is built and leaves the save behind.
ReturnBeforeSave(r) ==
    /\ analysis[r].pc \in {"built", "saved"}
    /\ running = r
    /\ running' = 0
    /\ analysis' = [analysis EXCEPT ![r] =
          [@ EXCEPT !.pc = "returned",
                    !.response = [status |-> 200,
                                  body |-> JsonBody(returned_result(analysis[r]))],
                    !.trace = Append(@, "return")]]
    /\ UNCHANGED <<now, lexicon, store, intake>>

\* return result: the handler ends and FastAPI answers 200 with the result.
Return(r) ==
    /\ analysis[r].pc = "saved"
    /\ running = r
    /\ running' = 0
    /\ analysis' = [analysis EXCEPT ![r] =
          [@ EXCEPT !.pc = "returned",
                    !.response = [status |-> 200,
                                  body |-> JsonBody(returned_result(analysis[r]))],
                    !.trace = Append(@, "return")]]
    /\ UNCHANGED <<now, lexicon, store, intake>>

\* The wall clock advances.
Tick ==
    /\ now < MaxClock
    /\ now' = now + 1
    /\ UNCHANGED <<lexicon, store, running, analysis, intake>>

(***************************************************************************)
(* The Ingestion Service: POST /submit.                                    *)
(***************************************************************************)
SENTIMENT_SERVICE_ERROR == <<"Sentiment Service error: ">>

NOT_RESPONDING ==
    <<"Sentiment Service is not responding. Please try again later.">>

UNABLE_TO_CONNECT ==
    <<"Unable to connect to Sentiment Service. Please check service status.">>

\* The exceptions client.post raises itself.
ForwardFaults == {"ConnectTimeout", "ReadTimeout", "ConnectError"}

\* The answers something in front of the Analysis Service gives in its place.
UpstreamStatuses == {307, 404, 500, 503}

UpstreamTexts == {<<>>, <<"Internal Server Error">>}

\* Response.is_success
is_success(status) == status \in 200 .. 299

\* The except clauses with RequestError before its subclass.
submit_except_clauses_base_first ==
    <<"RequestError", "TimeoutException", "HTTPStatusError">>

\* The except clauses of submit_review, in order.
submit_except_clauses ==
    <<"TimeoutException", "RequestError", "HTTPStatusError">>

\* An HTTPStatusError handler that passes the upstream body on as it came.
relay_status_error_verbatim(response) ==
    [status |-> response.status, body |-> response.body]

\* raise HTTPException(status_code=e.response.status_code,
\*                     detail=f"Sentiment Service error: {e.response.text}")
relay_status_error(response) ==
    [status |-> response.status,
     body |-> DetailBody(SENTIMENT_SERVICE_ERROR \o response_text(response.body))]

\* response.json() and FastAPI's encoding of what it returned; a body that is
\* not JSON makes response.json() raise, which no clause catches.
relay_success(response) ==
    IF response.body.kind = "text"
        THEN InternalServerError
        ELSE [status |-> 200, body |-> response.body]

\* submit_review from the point client.post ends: with a response, or with
\* the exception it raised.
submit_review_resume(outcome, response) ==
    LET raised == IF outcome # "response" THEN outcome
                  ELSE IF is_success(response.status) THEN "none"
                  ELSE "HTTPStatusError"
        clause == FirstMatch(submit_except_clauses, raised)
        caught == IF clause = 0 THEN "none" ELSE submit_except_clauses[clause]
    IN  CASE raised = "none" -> relay_success(response)
          [] caught = "TimeoutException" ->
                [status |-> ServiceUnavailable, body |-> DetailBody(NOT_RESPONDING)]
          [] caught = "RequestError" ->
                [status |-> ServiceUnavailable,
                 body |-> DetailBody(UNABLE_TO_CONNECT)]
          [] caught = "HTTPStatusError" -> relay_status_error(response)
          [] OTHER -> InternalServerError

\* POST /submit arrives: the body is validated as a Review and, when valid,
\* posted once to the Analysis Service; the handler then awaits the answer.
SubmitReview(r, brand, text) ==
    LET v == IngestionReview(brand, text)
    IN  /\ intake[r].pc = "idle"
        /\ analysis[r].pc = "idle"
        /\ intake' = [intake EXCEPT ![r] =
              IF v.ok
                  THEN [@ EXCEPT !.pc = "awaiting",
                                 !.input = [brand |-> brand, text |-> text],
                                 !.review = v.review,
                                 !.posts = @ + 1]
                  ELSE [@ EXCEPT !.pc = "responded",
                                 !.input = [brand |-> brand, text |-> text],
                                 !.reply = ValidationFailure]]
        /\ UNCHANGED <<now, lexicon, store, running, analysis>>

\* The posted review (review.model_dump()) reaches POST /analyze; it may do
\* so after the intake has stopped waiting for the answer.
ForwardDelivered(r) ==
    /\ intake[r].posts = 1
    /\ intake[r].outcome \in {"none", "ReadTimeout"}
    /\ analyze_endpoint(r, intake[r].review.brand, intake[r].review.text)
    /\ UNCHANGED <<now, lexicon, store, running, intake>>

\* client.post raises: the connection cannot be made (before anything was
\* delivered), or no answer comes within the timeout.
ForwardFault(r, exc) ==
    /\ intake[r].pc = "awaiting"
    /\ intake[r].outcome = "none"
    /\ exc # "ReadTimeout" => analysis[r].pc = "idle"
    /\ intake' = [intake EXCEPT ![r] = [@ EXCEPT !.outcome = exc]]
    /\ UNCHANGED <<now, lexicon, store, running, analysis>>

\* The Analysis Service's answer reaches the intake.
ResponseArrives(r) ==
    /\ intake[r].pc = "awaiting"
    /\ intake[r].outcome = "none"
    /\ analysis[r].pc \in {"rejected", "crashed", "returned"}
    /\ intake' = [intake EXCEPT ![r] =
          [@ EXCEPT !.outcome = "response",
                    !.response = analysis[r].response]]
    /\ UNCHANGED <<now, lexicon, store, running, analysis>>

\* Something in front of the Analysis Service answers in its place, with a
\* status that is not a success.
UpstreamError(r, status, text) ==
    /\ intake[r].pc = "awaiting"
    /\ intake[r].outcome = "none"
    /\ analysis[r].pc = "idle"
    /\ intake' = [intake EXCEPT ![r] =
          [@ EXCEPT !.outcome = "response",
                    !.response = [status |-> status, body |-> TextBody(text)]]]
    /\ UNCHANGED <<now, lexicon, store, running, analysis>>

\* The event loop resumes submit_review, which answers its caller.
SubmitResume(r) ==
    /\ intake[r].pc = "awaiting"
    /\ intake[r].outcome # "none"
    /\ intake' = [intake EXCEPT ![r] =
          [@ EXCEPT !.pc = "responded",
                    !.reply = submit_review_resume(intake[r].outcome,
                                                   intake[r].response)]]
    /\ UNCHANGED <<now, lexicon, store, running, analysis>>

(***************************************************************************)
(* Specifications.                                                         *)
(***************************************************************************)
Init ==
    /\ now = 0
    /\ lexicon = <<>>
    /\ store = {}
    /\ running = 0
    /\ analysis = [r \in Req |-> NoAnalysis]
    /\ intake = [r \in Req |-> NoIntake]

\* What the clients of the Analysis Service send when several call it.
SomeBrands == {<<"a">>, <<" ">>}
SomeTexts == {<<"a">>, <<"a", "a">>}
SomePolarities == {NegThreshold - 1, PosThreshold}

\* A write that succeeds, and one fault for each except clause.
SomeOutcomes ==
    {f \in SaveOutcomes :
        f.exc \in {"none", "NoCredentialsError", "EndpointConnectionError", "TypeError"}
            \/ f.code # "none"}

\* The Analysis Service under several clients that post to /analyze.
Next ==
    \/ \E r \in Req, brand \in SomeBrands, text \in SomeTexts :
          DirectAnalyze(r, brand, text)
    \/ \E r \in Req, p \in SomePolarities : Classify(r, p)
    \/ \E r \in Req : ReadClock(r)
    \/ \E r \in Req : Construct(r)
    \/ \E r \in Req, fault \in SomeOutcomes : Save(r, fault)
    \/ \E r \in Req : Return(r)
    \/ Tick

Spec == Init /\ [][Next]_vars

\* Both services, for one submission drawn from every text up to MaxLen.
NextE2E ==
    \/ \E brand \in RawStrings, text \in RawStrings : SubmitReview(1, brand, text)
    \/ \E brand \in RawStrings, text \in RawStrings : DirectAnalyze(1, brand, text)
    \/ ForwardDelivered(1)
    \/ \E exc \in ForwardFaults : ForwardFault(1, exc)
    \/ \E status \in UpstreamStatuses, text \in UpstreamTexts :
          UpstreamError(1, status, text)
    \/ ResponseArrives(1)
    \/ SubmitResume(1)
    \/ \E p \in Polarities : Classify(1, p)
    \/ ReadClock(1)
    \/ Construct(1)
    \/ \E fault \in SaveOutcomes : Save(1, fault)
    \/ Return(1)
    \/ Tick

SpecE2E == Init /\ [][NextE2E]_vars

\* Both services, for one submission out of a few, under the scheduling the
\* code runs with: the event loop resumes a handler whose awaited call has
\* ended, and a handler that is running goes on to its next statement; the
\* store write is a blocking call that ends, with a result or an exception.
NextLive ==
    \/ \E brand \in SomeBrands, text \in SomeTexts : SubmitReview(1, brand, text)
    \/ \E brand \in SomeBrands, text \in SomeTexts : DirectAnalyze(1, brand, text)
    \/ ForwardDelivered(1)
    \/ \E exc \in ForwardFaults : ForwardFault(1, exc)
    \/ \E status \in UpstreamStatuses, text \in UpstreamTexts :
          UpstreamError(1, status, text)
    \/ ResponseArrives(1)
    \/ SubmitResume(1)
    \/ \E p \in SomePolarities : Classify(1, p)
    \/ ReadClock(1)
    \/ Construct(1)
    \/ \E fault \in SaveOutcomes : Save(1, fault)
    \/ Return(1)
    \/ Tick

SpecLive ==
    /\ Init
    /\ [][NextLive]_vars
    /\ WF_vars(SubmitResume(1))
    /\ WF_vars(ReadClock(1))
    /\ WF_vars(Construct(1))
    /\ WF_vars(\E fault \in SaveOutcomes : Save(1, fault))
    /\ WF_vars(Return(1))

\* analyze_sentiment over every polarity, for a review that has been received.
InitClassify ==
    /\ now = 0
    /\ lexicon = <<>>
    /\ store = {}
    /\ running = 0
    /\ intake = [r \in Req |-> NoIntake]
    /\ analysis = [r \in Req |->
          IF r = 1
              THEN [NoAnalysis EXCEPT
                        !.pc = "received",
                        !.input = [brand |-> <<"a">>, text |-> <<"a">>],
                        !.review = [brand |-> <<"a">>, text |-> <<"a">>]]
              ELSE NoAnalysis]

NextClassify == \E p \in AllPolarities : Classify(1, p)

SpecClassify == InitClassify /\ [][NextClassify]_vars

(***************************************************************************)
(* Properties.                                                             *)
(***************************************************************************)
Mocks(a) == {i \in 1 .. Len(a.notices) : a.notices[i].kind = "mock"}

SaveRan(a) == a.pc \in {"saved", "crashed", "returned"}

Blank(v) == \A i \in 1 .. Len(v) : v[i] = " "

Trimmed(v) == Len(v) > 0 /\ v[1] # " " /\ v[Len(v)] # " "

IsPrefix(s, t) == Len(s) <= Len(t) /\ s = SubSeq(t, 1, Len(s))

\* C1: for every polarity p in [-1.0, 1.0], analyze_sentiment labels it
\* CRITICAL exactly when p < -0.1, POSITIVE exactly when p > 0.1 and NEUTRAL
\* otherwise; p = -0.1 and p = 0.1 are NEUTRAL; the score returned is p.
C1_Thresholds ==
    \A r \in Req :
        analysis[r].pc = "classified" =>
            LET p == lexicon[analysis[r].review.text]
                label == analysis[r].sentiment_label
            IN  /\ p \in AllPolarities
                /\ analysis[r].score = p
                /\ label \in {"CRITICAL", "NEUTRAL", "POSITIVE"}
                /\ (label = "CRITICAL") <=> (p < NegThreshold)
                /\ (label = "POSITIVE") <=> (p > PosThreshold)
                /\ (label = "NEUTRAL") <=> (NegThreshold <= p /\ p <= PosThreshold)
                /\ p \in {NegThreshold, PosThreshold} => label = "NEUTRAL"

C1_Witness ==
    \E r \in Req :
        /\ analysis[r].pc = "classified"
        /\ analysis[r].score = NegThreshold
        /\ analysis[r].sentiment_label = "NEUTRAL"

\* C2: whatever the store write meets (success, no credentials, a remote
\* rejection, a transport fault, any other fault), save_to_dynamodb returns
\* without an exception escaping it, and the analyze call that made it goes
\* on to return its result (status 200) to the caller.
C2_SaveNeverRaises ==
    /\ [](\A r \in Req :
            /\ analysis[r].pc # "crashed"
            /\ analysis[r].propagated = "none"
            /\ SaveRan(analysis[r]) => analysis[r].fault \in SaveOutcomes
            /\ analysis[r].pc = "returned" =>
                  /\ analysis[r].response.status = 200
                  /\ analysis[r].response.body.kind = "json"
                  /\ analysis[r].response.body.result.sentiment
                        \in {"CRITICAL", "NEUTRAL", "POSITIVE"})
    /\ \A r \in Req :
          (analysis[r].pc = "built") ~> (analysis[r].pc = "returned")

C2_Witness ==
    \E r \in Req :
        /\ analysis[r].pc = "returned"
        /\ analysis[r].fault.exc = "TypeError"
        /\ analysis[r].response.status = 200

\* C3: a write that fails prints exactly one degraded-recording notice, with
\* the record's brand and a reason chosen by the kind of failure: missing
\* credentials give "No AWS credentials" (never the transport reason), a
\* remote rejection gives the remote error code, a transport fault and any
\* other fault give the fault's type name; a write that succeeds prints none.
C3_DegradedNotice ==
    \A r \in Req :
        SaveRan(analysis[r]) =>
            LET a == analysis[r]
                f == a.fault
            IN  IF f = NoFault
                    THEN Mocks(a) = {}
                    ELSE /\ Cardinality(Mocks(a)) = 1
                         /\ \A i \in Mocks(a) :
                              /\ a.notices[i].brand = a.review.brand
                              /\ f.exc = "NoCredentialsError" =>
                                    a.notices[i].reason = "No AWS credentials"
                              /\ (f.exc = "ClientError" /\ f.code # "none") =>
                                    a.notices[i].reason = f.code
                              /\ f.exc \in {"NoRegionError",
                                            "EndpointConnectionError",
                                            "TypeError"} =>
                                    a.notices[i].reason = f.exc

C3_Witness ==
    \E r \in Req :
        /\ SaveRan(analysis[r])
        /\ analysis[r].fault.exc = "NoCredentialsError"
        /\ Cardinality(Mocks(analysis[r])) = 1
        /\ \A i \in Mocks(analysis[r]) :
              analysis[r].notices[i].reason = "No AWS credentials"

\* C4: two analyze calls on the same review that read the same clock value
\* return the same brand, text, sentiment, score and timestamp, whatever the
\* store write met in each.
C4_ResultIndependentOfPersistence ==
    \A r1 \in Req, r2 \in Req :
        ( /\ analysis[r1].pc = "returned"
          /\ analysis[r2].pc = "returned"
          /\ analysis[r1].review = analysis[r2].review
          /\ analysis[r1].timestamp = analysis[r2].timestamp )
        => analysis[r1].response = analysis[r2].response

C4_Witness ==
    \E r1 \in Req, r2 \in Req :
        /\ analysis[r1].pc = "returned"
        /\ analysis[r2].pc = "returned"
        /\ analysis[r1].review = analysis[r2].review
        /\ analysis[r1].timestamp = analysis[r2].timestamp
        /\ analysis[r1].fault = NoFault
        /\ analysis[r2].fault.exc = "EndpointConnectionError"
        /\ analysis[r1].response.body.result.brand = <<"a">>

\* C5: the record handed to the store carries the brand, text, sentiment,
\* score and timestamp of the result returned to the caller, the timestamp
\* being the one clock reading of the call, is keyed by (brand, timestamp),
\* and holds no other field (the table-name key is removed before the write).
ResultFields == {"brand", "text", "sentiment", "score", "timestamp"}

C5_PersistedEqualsReturned ==
    \A r \in Req :
        LET a == analysis[r]
        IN  /\ a.writes >= 1 =>
                  /\ DOMAIN a.item = ResultFields
                  /\ \A k \in ResultFields : a.item[k] = a.result[k]
                  /\ a.item["timestamp"] = a.timestamp
                  /\ ItemKey(a.item) = <<a.review.brand, a.timestamp>>
                  /\ a.table_name = "brandguard-reviews"
                  /\ a.fault = NoFault => a.item \in store
            /\ (a.pc = "returned" /\ a.writes >= 1) =>
                  \A k \in ResultFields :
                      a.response.body.result[k] = a.item[k]

C5_Witness ==
    \E r \in Req :
        /\ analysis[r].pc = "returned"
        /\ analysis[r].fault = NoFault
        /\ analysis[r].item \in store
        /\ analysis[r].response.body.result.timestamp = analysis[r].item["timestamp"]

\* C6: a submission whose brand or text is empty or only whitespace is
\* rejected at the boundary of the endpoint it reaches: it is never
\* forwarded, classified or written; every review that reaches the
\* classifier has a trimmed, non-empty brand and text.
C6_ValidationAtBoundary ==
    \A r \in Req :
        LET a == analysis[r]
            s == intake[r]
        IN  /\ (s.pc # "idle" /\ (Blank(s.input.brand) \/ Blank(s.input.text))) =>
                  /\ s.pc = "responded"
                  /\ s.reply.status = 422
                  /\ s.posts = 0
                  /\ a.pc = "idle"
            /\ (a.pc # "idle" /\ (Blank(a.input.brand) \/ Blank(a.input.text))) =>
                  /\ a.pc = "rejected"
                  /\ a.response.status = 422
            /\ a.pc = "rejected" => (a.trace = <<>> /\ a.writes = 0)
            /\ a.trace # <<>> => (Trimmed(a.review.brand) /\ Trimmed(a.review.text))
            /\ s.posts > 0 => (Trimmed(s.review.brand) /\ Trimmed(s.review.text))
            /\ \A i \in store : Trimmed(i["brand"]) /\ Trimmed(i["text"])

C6_Witness ==
    \E r \in Req :
        /\ analysis[r].pc = "rejected"
        /\ analysis[r].input.brand = <<" ">>
        /\ analysis[r].input.text = <<"a">>
        /\ analysis[r].trace = <<>>

C8_ServiceUnavailable ==
    /\ [](\A r \in Req :
            /\ intake[r].posts <= 1
            /\ (intake[r].pc = "responded" /\ intake[r].outcome \in ForwardFaults) =>
                  /\ intake[r].posts = 1
                  /\ intake[r].reply.status = 503
                  /\ intake[r].reply.body.kind = "detail"
                  /\ intake[r].outcome \in {"ConnectTimeout", "ReadTimeout"} =>
                        intake[r].reply.body.text =
                            <<"Sentiment Service is not responding. Please try again later.">>
                  /\ intake[r].outcome = "ConnectError" =>
                        intake[r].reply.body.text =
                            <<"Unable to connect to Sentiment Service. Please check service status.">>)
    /\ \A r \in Req :
          (intake[r].outcome \in ForwardFaults) ~> (intake[r].pc = "responded")

C8_Witness ==
    \E r \in Req :
        /\ intake[r].pc = "responded"
        /\ intake[r].outcome = "ReadTimeout"
        /\ intake[r].reply.status = 503

\* C9: when every request's write succeeds, the store holds one record per
\* request: no two requests write under the same (brand, timestamp) key.
Stored(r) == analysis[r].pc = "returned" /\ analysis[r].fault = NoFault

C9_NoOverwrite ==
    /\ \A r1 \in Req, r2 \in Req :
          (r1 # r2 /\ Stored(r1) /\ Stored(r2)) =>
              ItemKey(analysis[r1].item) # ItemKey(analysis[r2].item)
    /\ (\A r \in Req : Stored(r)) => Cardinality(store) = NumReq

\* C10: an analyze call classifies, then reads the clock, then builds the
\* result, then calls save_to_dynamodb (which calls put_item at most once),
\* and returns the result only after save_to_dynamodb has returned; each
\* step happens once.
StepsOf(writes) ==
    <<"analyze_sentiment", "now", "SentimentResult", "save_to_dynamodb">>
        \o (IF writes = 1 THEN <<"put_item">> ELSE <<>>)
        \o <<"saved", "return">>

C10_StepOrder ==
    \A r \in Req :
        LET a == analysis[r]
        IN  /\ a.writes \in {0, 1}
            /\ IsPrefix(a.trace, StepsOf(a.writes)) \/ IsPrefix(a.trace, StepsOf(1))
            /\ a.pc = "returned" => a.trace = StepsOf(a.writes)
            /\ a.response.status = 200 => a.pc = "returned"

C10_Witness ==
    \E r \in Req :
        /\ analysis[r].pc = "returned"
        /\ analysis[r].writes = 1
        /\ analysis[r].trace = StepsOf(1)

====
